---- MODULE Spec2Model ----
(***************************************************************************)
(* State-machine model of twitter_rss.py (SimpleTwitterRSS and main).      *)
(*                                                                         *)
(* Persistent state is the two directories the script writes: feeds/state  *)
(* (one JSON record per account) and feeds (one RSS document per account), *)
(* plus urls.txt.  One invocation of main is either the --force branch     *)
(* (one step) or a normal run: run() starts, process_account is called for *)
(* each listed account in turn, then run() returns and main exits.         *)
(*                                                                         *)
(* Texts (snippets, hashes) are sequences of character codes.  The clock   *)
(* datetime.now() is an integer number of hours.                           *)
(***************************************************************************)
EXTENDS Integers, Sequences, FiniteSets, TLC

VARIABLES
    accounts,       \* the usable lines of accounts.txt, in file order
    state,          \* feeds/state/<username>.json: username -> record, for the files that exist
    feeds,          \* feeds/<username>.rss: username -> document, for the files that exist
    urls,           \* urls.txt: its header and the accounts it lists (<<>> while the file does not exist)
    now,            \* the wall clock, in hours
    pc,             \* "idle": no invocation in progress; "run": inside run()'s loop
    idx,            \* position of run()'s for loop in accounts (1-based)
    updated_count,  \* run()'s local counter
    log,            \* what each process_account call of the current (or last) run did
    prev,           \* the run before it, if nothing ran in between: what it fetched, when it ended
    after_force,    \* whether a --force invocation came right before the current run
    ev              \* the last call that completed: its inputs, decision and effects

vars == <<accounts, state, feeds, urls, now, pc, idx, updated_count, log, prev, after_force, ev>>

----------------------------------------------------------------------------
(* Bounds of the model *)

MaxTime == 26

(* Program constants *)

MaxFailures == 3
KeepAliveHours == 12
HashTweets == 3
HashChars == 200
MinTextLen == 10
MaxElements == 15
MaxEntries == 20
TitleChars == 80
HttpOk == 200

\* The clock readings at which main is invoked, up to MaxTime: between them
\* lie an hour, exactly the keep-alive interval, and more than it (twice over
\* between 0, 13 and MaxTime).
Instants == {0, KeepAliveHours, KeepAliveHours + 1, MaxTime}

----------------------------------------------------------------------------
(* Texts *)

None == <<>>                      \* Python None (and the empty string) for text-valued fields
Truthy(x) == x # None

SP == 32
Rep(c, n) == [k \in 1..n |-> c]

Short == Rep(115, 3)                                  \* "sss": too short to be a snippet
TA == Rep(97, 11)                                     \* "aaaaaaaaaaa"
TB == Rep(98, 12)
TSp == Rep(99, 5) \o <<SP, SP>> \o Rep(100, 5)        \* "ccccc  ddddd": a run of two spaces
TWs == Rep(99, 5) \o <<9, 10, 160>> \o Rep(100, 5)    \* "ccccc\t\n\xa0ddddd": tab, newline, no-break space

no_tweets == <<110, 111, 95, 116, 119, 101, 101, 116, 115>>   \* 'no_tweets'

instances == << "https://nitter.net", "https://nitter.kavin.rocks", "https://nitter.fdn.fr",
                "https://nitter.1d4.us", "https://nitter.privacydev.net" >>

NoInstance == "None"

----------------------------------------------------------------------------
(* accounts.txt *)

\* A line of accounts.txt is used as part of two paths, feeds/<line>.rss and
\* feeds/state/<line>.json.  A line holding a path separator names a file in a
\* subdirectory, and open(..., 'w') raises FileNotFoundError unless that
\* directory exists.
split_path(username) ==
    CASE username = "x/y" -> <<"x", "y">>
      [] username = "state/alice" -> <<"state", "alice">>
      [] OTHER -> <<username>>

dirname(username) == SubSeq(split_path(username), 1, Len(split_path(username)) - 1)

\* The directories that exist, as paths below feeds/: feeds itself and
\* feeds/state, both made by __init__
Directories == { <<>>, <<"state">> }

\* open('feeds/<username>.rss', 'w') succeeds
can_open_feed(username) == dirname(username) \in Directories

\* open('feeds/state/<username>.json', 'w') succeeds
can_open_state(username) == (<<"state">> \o dirname(username)) \in Directories

AccountLists == { <<>>, <<"alice">>, <<"x/y", "alice">>, <<"state/alice">> }

----------------------------------------------------------------------------
(* State store *)

default_state ==
    [ last_hash |-> None, last_update |-> None, last_count |-> 0,
      failures |-> 0, instance_used |-> NoInstance ]

load_state(username) ==
    IF username \in DOMAIN state THEN state[username] ELSE default_state

isoformat(t) == <<t>>
fromisoformat(s) == s[1]

----------------------------------------------------------------------------
(* Fingerprint *)

Take(s, n) == SubSeq(s, 1, IF Len(s) < n THEN Len(s) ELSE n)

RECURSIVE Join(_)
Join(ss) == IF ss = <<>> THEN <<>> ELSE Head(ss) \o Join(Tail(ss))

\* The first 16 hex digits of SHA-256, modelled as an injective tagging of the
\* hashed text (a digest never equals 'no_tweets': it is 16 hex digits long).
DigestTag == <<35>>
sha256_hex16(content) == DigestTag \o content

calculate_hash(tweets) ==
    IF tweets = <<>> THEN no_tweets
    ELSE sha256_hex16(Join([k \in 1..Len(Take(tweets, HashTweets)) |-> Take(tweets[k], HashChars)]))

----------------------------------------------------------------------------
(* Mirror fetcher *)

\* The characters str.split() without argument splits on (str.isspace)
WhiteSpace ==
    (9..13) \cup (28..32) \cup {133, 160, 5760} \cup (8192..8202)
        \cup {8232, 8233, 8239, 8287, 12288}

isspace(c) == c \in WhiteSpace

\* ' '.join(text.split()): leading and trailing white space goes, every inner
\* run of white space becomes one blank
KeepChar(text, k) ==
    \/ ~isspace(text[k])
    \/ /\ k > 1
       /\ ~isspace(text[k-1])
       /\ \E j \in (k+1)..Len(text) : ~isspace(text[j])

JoinChar(c) == IF isspace(c) THEN SP ELSE c

RECURSIVE collapse_range(_, _, _)
collapse_range(text, lo, hi) ==
    IF lo > hi THEN <<>>
    ELSE IF lo = hi THEN (IF KeepChar(text, lo) THEN <<JoinChar(text[lo])>> ELSE <<>>)
    ELSE LET mid == (lo + hi) \div 2
         IN  collapse_range(text, lo, mid) \o collapse_range(text, mid + 1, hi)

collapse(text) == collapse_range(text, 1, Len(text))

\* The elements of the first selector that matches anything
select_first(selected) ==
    IF selected[1] # <<>> THEN selected[1]
    ELSE IF selected[2] # <<>> THEN selected[2]
    ELSE selected[3]

extract(selected) ==
    LET elems == Take(select_first(selected), MaxElements)
        kept  == SelectSeq(elems, LAMBDA text : Truthy(text) /\ Len(text) > MinTextLen)
    IN  [k \in 1..Len(kept) |-> collapse(kept[k])]

\* What fetch_tweets returns when the loop ends without a break
exhausted(tweets) ==
    [ tweets |-> tweets, instance_used |-> instances[1], tried |-> instances ]

RECURSIVE fetch_from(_, _, _)
fetch_from(web, k, tweets) ==
    IF k > Len(instances) THEN exhausted(tweets)
    ELSE IF web[k].raises THEN fetch_from(web, k + 1, tweets)
    ELSE IF web[k].status_code = HttpOk
         THEN LET got == tweets \o extract(web[k].selected)
              IN  IF got # <<>>
                  THEN [ tweets |-> got, instance_used |-> instances[k],
                         tried |-> SubSeq(instances, 1, k) ]
                  ELSE fetch_from(web, k + 1, got)
    ELSE fetch_from(web, k + 1, tweets)

fetch_tweets(web) == fetch_from(web, 1, <<>>)

----------------------------------------------------------------------------
(* What the mirrors answer: one response per instance *)

Raises == [ raises |-> TRUE, status_code |-> 0, selected |-> << <<>>, <<>>, <<>> >> ]
Http(code, page) == [ raises |-> FALSE, status_code |-> code, selected |-> page ]

PgNone  == << <<>>, <<>>, <<>> >>
PgShort == << <<Short>>, <<TA>>, <<>> >>
PgA     == << <<>>, <<Short, TA>>, <<>> >>
PgB     == << <<TB, TA>>, <<>>, <<>> >>
\* PgC1 and PgC2 agree on their first three snippets only, once white space
\* is cleaned; PgC2 holds more elements than are read
PgC1    == << <<TB, TSp, TA, TA>>, <<>>, <<>> >>
PgC2    == << <<TB, TWs, TA>> \o Rep(TSp, MaxElements - 2), <<>>, <<>> >>

AllFail == << Raises, Http(503, PgA), Http(HttpOk, PgShort), Http(HttpOk, PgNone), Raises >>

Web(k, page) ==
    [ j \in 1..Len(instances) |->
        IF j <= k THEN AllFail[j]
        ELSE IF j = k + 1 THEN Http(HttpOk, page)
        ELSE Http(HttpOk, PgB) ]

WebInputs ==
    {AllFail, Web(Len(instances) - 1, PgA), Web(0, PgC1), Web(0, PgC2)}

----------------------------------------------------------------------------
(* Feed builder *)

md5_hex8(username, text) == [ user |-> username, of |-> text ]

entry_title(text) ==
    IF Len(text) > TitleChars THEN Take(text, TitleChars) \o <<46, 46, 46>> ELSE text

generate_rss(username, tweets, t) ==
    [ title |-> username,
      lastBuildDate |-> t,
      entries |->
        IF tweets # <<>>
        THEN LET shown == Take(tweets, MaxEntries)
             IN  [ k \in 1..Len(shown) |->
                     [ title |-> entry_title(shown[k]), description |-> shown[k],
                       guid |-> md5_hex8(username, shown[k]) ] ]
        ELSE << [ title |-> None, description |-> None,
                  guid |-> [ user |-> username, of |-> isoformat(t) ] ] >> ]

----------------------------------------------------------------------------
(* Update decision *)

\* (variant: the account is skipped only after more than 3 failures)
too_many_failures_after(failures) == failures > MaxFailures

too_many_failures(failures) == failures >= MaxFailures

\* (variant: the keep-alive refresh is due at 12 hours already)
keep_alive_due_at_12(last_update, t) ==
    /\ Truthy(last_update)
    /\ t - fromisoformat(last_update) >= KeepAliveHours

keep_alive_due(last_update, t) ==
    /\ Truthy(last_update)
    /\ t - fromisoformat(last_update) > KeepAliveHours

\* (variant: a change is detected by the snippet count, not by the fingerprint)
decide_by_count(st, current_hash, current_count, t) ==
    IF ~Truthy(st.last_hash)
    THEN [ needs_update |-> TRUE, reason |-> "first_run" ]
    ELSE IF current_count # st.last_count
    THEN [ needs_update |-> TRUE, reason |-> "changed" ]
    ELSE IF current_count = 0 /\ st.last_count = 0 /\ keep_alive_due(st.last_update, t)
    THEN [ needs_update |-> TRUE, reason |-> "keepalive" ]
    ELSE [ needs_update |-> FALSE, reason |-> "" ]

decide(st, current_hash, current_count, t) ==
    IF ~Truthy(st.last_hash)
    THEN [ needs_update |-> TRUE, reason |-> "first_run" ]
    ELSE IF current_hash # st.last_hash
    THEN [ needs_update |-> TRUE, reason |-> "changed" ]
    ELSE IF current_count = 0 /\ st.last_count = 0 /\ keep_alive_due(st.last_update, t)
    THEN [ needs_update |-> TRUE, reason |-> "keepalive" ]
    ELSE [ needs_update |-> FALSE, reason |-> "" ]

\* (variant: the new fingerprint is not recorded)
new_state_without_hash(failures, tweets, instance_used, current_hash, reason, t) ==
    [ last_hash |-> None,
      last_update |-> isoformat(t),
      last_count |-> Len(tweets),
      failures |-> IF tweets # <<>> THEN 0 ELSE failures + 1,
      instance_used |-> instance_used,
      update_reason |-> reason ]

new_state(failures, tweets, instance_used, current_hash, reason, t) ==
    [ last_hash |-> current_hash,
      last_update |-> isoformat(t),
      last_count |-> Len(tweets),
      failures |-> IF tweets # <<>> THEN 0 ELSE failures + 1,
      instance_used |-> instance_used,
      update_reason |-> reason ]

----------------------------------------------------------------------------
(* process_account *)

Event(username, f, h, d, outcome, wrote_feed, wrote_state) ==
    [ op |-> "process_account", username |-> username, at |-> now,
      skipped |-> FALSE, tried |-> f.tried, tweets |-> f.tweets,
      instance_used |-> f.instance_used, current_hash |-> h,
      needs_update |-> d.needs_update, reason |-> d.reason,
      wrote_feed |-> wrote_feed, wrote_state |-> wrote_state, outcome |-> outcome ]

SkipEvent(username) ==
    [ op |-> "process_account", username |-> username, at |-> now,
      skipped |-> TRUE, tried |-> <<>>, tweets |-> <<>>,
      instance_used |-> NoInstance, current_hash |-> None,
      needs_update |-> FALSE, reason |-> "",
      wrote_feed |-> FALSE, wrote_state |-> FALSE, outcome |-> "False" ]

process_account(username, web) ==
    LET st == load_state(username)
        failures == st.failures
    IN  IF too_many_failures(failures)
        THEN /\ UNCHANGED <<state, feeds>>
             /\ ev' = SkipEvent(username)
        ELSE LET f == fetch_tweets(web)
                 current_hash == calculate_hash(f.tweets)
                 current_count == Len(f.tweets)
                 d == decide(st, current_hash, current_count, now)
             IN  IF d.needs_update
                 THEN IF ~can_open_feed(username)
                      THEN \* open('feeds/<username>.rss', 'w') raises
                           /\ UNCHANGED <<state, feeds>>
                           /\ ev' = Event(username, f, current_hash, d, "raise", FALSE, FALSE)
                      ELSE /\ feeds' = (username :> generate_rss(username, f.tweets, now)) @@ feeds
                           /\ IF can_open_state(username)
                              THEN /\ state' = (username :> new_state(failures, f.tweets, f.instance_used,
                                                                     current_hash, d.reason, now)) @@ state
                                   /\ ev' = Event(username, f, current_hash, d, "True", TRUE, TRUE)
                              ELSE \* the feed is written, then save_state raises
                                   /\ UNCHANGED state
                                   /\ ev' = Event(username, f, current_hash, d, "raise", TRUE, FALSE)
                 ELSE /\ UNCHANGED <<state, feeds>>
                      /\ ev' = Event(username, f, current_hash, d, "False", FALSE, FALSE)

LogEntry(e) ==
    [ username |-> e.username, fetched |-> ~e.skipped, tweets |-> e.tweets,
      outcome |-> e.outcome, reason |-> e.reason,
      wrote_feed |-> e.wrote_feed, wrote_state |-> e.wrote_state ]

----------------------------------------------------------------------------
(* run() and main() *)

count_update(count, outcome) == IF outcome = "True" THEN count + 1 ELSE count

\* (variant: an exception ends the loop)
next_index_abort(k, outcome) == IF outcome = "raise" THEN Len(accounts) + 1 ELSE k + 1

next_index(k, outcome) == k + 1

exit_status(updated) == IF updated = 0 THEN 1 ELSE 0

\* The process environment of one invocation: GITHUB_REPOSITORY_OWNER (<<>>
\* when unset), whether GITHUB_ACTIONS is set to a non-empty value, and
\* GITHUB_OUTPUT: "unset", "unwritable" (it names a file that cannot be opened
\* for append) or "ok"
Local         == [ owner |-> <<>>, actions |-> FALSE, output |-> "unset" ]
Actions       == [ owner |-> <<"octo">>, actions |-> TRUE, output |-> "ok" ]
ActionsNoOut  == [ owner |-> <<"octo">>, actions |-> TRUE, output |-> "unset" ]
ActionsBadOut == [ owner |-> <<"octo">>, actions |-> TRUE, output |-> "unwritable" ]
Environments  == {Local, Actions, ActionsNoOut, ActionsBadOut}

getenv_owner(env) == IF env.owner = <<>> THEN "YOUR_USERNAME" ELSE env.owner[1]

\* generate_urls_file: no file for an empty account list
urls_file(github_user, list, t, old) ==
    IF list = <<>> THEN old
    ELSE [ github_user |-> github_user, generated |-> t, accounts |-> list ]

\* os.environ['GITHUB_OUTPUT'] raises KeyError, or open(..., 'a') raises
output_raises(env) == env.actions /\ env.output # "ok"

\* The lines appended to the file GITHUB_OUTPUT names
output_lines(env, updated, total) ==
    IF env.actions /\ env.output = "ok" THEN <<updated > 0, updated, total>> ELSE <<>>

\* How main ends after run() returned (updated, total): an exception of the
\* output step ends the process with a traceback and status 1
main_exit(env, updated, total) ==
    [ op |-> "main", at |-> now, result |-> <<updated, total>>,
      github_output |-> output_lines(env, updated, total),
      raised |-> output_raises(env),
      exit_code |-> IF output_raises(env) THEN 1 ELSE exit_status(updated) ]

NoPrev == [ valid |-> FALSE, end |-> 0, fetches |-> <<>> ]

Fetches(entries) ==
    [ k \in 1..Len(entries) |-> [ fetched |-> entries[k].fetched, tweets |-> entries[k].tweets ] ]

\* main without --force, account list empty or missing: run() returns (0, 0) at
\* once, generate_urls_file writes nothing, the output step runs and main exits
MainEmpty ==
    /\ pc = "idle"
    /\ accounts = <<>>
    /\ \E env \in Environments : ev' = main_exit(env, 0, 0)
    /\ log' = <<>>
    /\ prev' = NoPrev
    /\ after_force' = (ev.op = "force")
    /\ UNCHANGED <<accounts, state, feeds, urls, now, pc, idx, updated_count>>

\* main without --force: run() loads the accounts and enters its loop
MainStart ==
    /\ pc = "idle"
    /\ accounts # <<>>
    /\ pc' = "run"
    /\ idx' = 1
    /\ updated_count' = 0
    /\ log' = <<>>
    /\ prev' = IF ev.op = "main" THEN [ valid |-> TRUE, end |-> ev.at, fetches |-> Fetches(log) ]
               ELSE NoPrev
    /\ after_force' = (ev.op = "force")
    /\ UNCHANGED <<accounts, state, feeds, urls, now, ev>>

\* one iteration of run()'s loop: process_account, guarded by try/except
ProcessNext ==
    /\ pc = "run"
    /\ idx <= Len(accounts)
    /\ \E web \in WebInputs : process_account(accounts[idx], web)
    /\ updated_count' = count_update(updated_count, ev'.outcome)
    /\ idx' = next_index(idx, ev'.outcome)
    /\ log' = Append(log, LogEntry(ev'))
    /\ UNCHANGED <<accounts, urls, now, pc, prev, after_force>>

\* run() returns; main writes urls.txt, appends to GITHUB_OUTPUT under GitHub
\* Actions, and exits
RunFinish ==
    /\ pc = "run"
    /\ idx > Len(accounts)
    /\ pc' = "idle"
    /\ \E env \in Environments :
          /\ urls' = urls_file(getenv_owner(env), accounts, now, urls)
          /\ ev' = main_exit(env, updated_count, Len(accounts))
    /\ UNCHANGED <<accounts, state, feeds, now, idx, updated_count, log, prev, after_force>>

\* main --force: the state of each listed account is loaded, its last_hash set
\* to None, and saved; an unwritable state file ends the loop with a traceback
\* (variant: --force clears the failure counter as well)
force_state_clear_failures(st) == [ st EXCEPT !.last_hash = None, !.failures = 0 ]

force_state(st) == [ st EXCEPT !.last_hash = None ]

RECURSIVE force_from(_, _)
force_from(k, files) ==
    IF k > Len(accounts) \/ ~can_open_state(accounts[k]) THEN files
    ELSE LET u == accounts[k]
             st == IF u \in DOMAIN files THEN files[u] ELSE default_state
         IN  force_from(k + 1, (u :> force_state(st)) @@ files)

MainForce ==
    /\ pc = "idle"
    /\ state' = force_from(1, state)
    /\ ev' = [ op |-> "force", at |-> now,
               exit_code |-> IF \A k \in 1..Len(accounts) : can_open_state(accounts[k]) THEN 0 ELSE 1 ]
    /\ UNCHANGED <<accounts, feeds, urls, now, pc, idx, updated_count, log, prev, after_force>>

\* Time passes between invocations.  A run lasts minutes at most (a 30 s
\* timeout per mirror, a 1 s pause per account), which is nothing on a clock
\* that counts hours.
Tick ==
    /\ pc = "idle"
    /\ \E t \in Instants : t > now /\ now' = t
    /\ UNCHANGED <<accounts, state, feeds, urls, pc, idx, updated_count, log, prev, after_force, ev>>

Init ==
    /\ accounts \in AccountLists
    /\ state = <<>>
    /\ feeds = <<>>
    /\ urls = <<>>
    /\ now = 0
    /\ pc = "idle"
    /\ idx = 0
    /\ updated_count = 0
    /\ log = <<>>
    /\ prev = NoPrev
    /\ after_force = FALSE
    /\ ev = [ op |-> "init" ]

Next == MainEmpty \/ MainStart \/ ProcessNext \/ RunFinish \/ MainForce \/ Tick

Spec == Init /\ [][Next]_vars

----------------------------------------------------------------------------
(* Vocabulary of the properties *)

\* A step in which one process_account call of run()'s loop completed; the
\* account is accounts[idx] and its persisted state load_state(accounts[idx]),
\* both read before the step
ProcessStep == pc = "run" /\ Len(log') = Len(log) + 1

\* An account proper: a handle, which holds no path separator
Handle(username) == Len(split_path(username)) = 1

\* The step wrote the feed document and the state record of u and returned True
Updated(u) ==
    /\ ev'.outcome = "True"
    /\ ev'.wrote_feed /\ ev'.wrote_state
    /\ u \in DOMAIN feeds' /\ feeds'[u] = generate_rss(u, ev'.tweets, now)
    /\ u \in DOMAIN state'
    /\ state'[u].last_hash = ev'.current_hash
    /\ state'[u].last_count = Len(ev'.tweets)
    /\ state'[u].last_update = isoformat(now)

\* The step wrote nothing and returned False
NotUpdated ==
    /\ ev'.outcome = "False"
    /\ ~ev'.wrote_feed /\ ~ev'.wrote_state
    /\ feeds' = feeds
    /\ state' = state

\* The persisted state of u after the step
StateAfter(u) == IF u \in DOMAIN state' THEN state'[u] ELSE default_state

Usernames(entries) == [ k \in 1..Len(entries) |-> entries[k].username ]
Trues(entries) == Cardinality({ k \in 1..Len(entries) : entries[k].outcome = "True" })
Wrote(entry) == entry.wrote_feed \/ entry.wrote_state

\* A normal invocation of main has completed and nothing was invoked since
NormalDone == pc = "idle" /\ ev.op = "main"

----------------------------------------------------------------------------
(* C1: for an account with fewer than 3 persisted failures, process_account  *)
(* updates (feed and state written, True returned) when the persisted        *)
(* fingerprint is null, updates when the new fingerprint differs from the    *)
(* persisted one, and writes nothing and returns False when the two are      *)
(* equal and the new snippet count is above 0.                               *)
C1_DecisionByFingerprint ==
    [][ ProcessStep =>
          LET u == accounts[idx]
              st == load_state(u)
          IN  (Handle(u) /\ st.failures < MaxFailures) =>
                /\ st.last_hash = None => Updated(u)
                /\ (st.last_hash # None /\ ev'.current_hash # st.last_hash) => Updated(u)
                /\ (ev'.current_hash = st.last_hash /\ Len(ev'.tweets) > 0) => NotUpdated
      ]_vars

\* a fetch whose fingerprint equals the persisted one, although the snippets
\* differ from those of the feed on disk, was left without update
C1_Witness ==
    /\ ev.op = "process_account"
    /\ ~ev.skipped
    /\ Len(ev.tweets) > 0
    /\ ev.outcome = "False"
    /\ ev.username \in DOMAIN state
    /\ state[ev.username].last_hash = ev.current_hash
    /\ state[ev.username].last_count # Len(ev.tweets)

(* C2 (as claimed): every non-skipped processing whose fetch returned no     *)
(* snippet raises the persisted failure counter by one, and every processing *)
(* whose fetch returned a snippet leaves it at 0.                            *)
C2_FailureCounterCounts ==
    [][ ProcessStep =>
          LET u == accounts[idx]
              st == load_state(u)
          IN  (Handle(u) /\ ~ev'.skipped) =>
                IF ev'.tweets = <<>>
                THEN StateAfter(u).failures = st.failures + 1
                ELSE StateAfter(u).failures = 0
      ]_vars

(* C3: when the persisted and the new fingerprint are both 'no_tweets' and   *)
(* both counts are 0, process_account updates exactly when more than 12      *)
(* hours have passed since the persisted last update, and otherwise writes   *)
(* nothing and returns False.                                                *)
C3_KeepAlive ==
    [][ ProcessStep =>
          LET u == accounts[idx]
              st == load_state(u)
          IN  ( /\ ~ev'.skipped
                /\ st.last_hash = no_tweets /\ ev'.current_hash = no_tweets
                /\ st.last_count = 0 /\ Len(ev'.tweets) = 0 ) =>
                IF now - fromisoformat(st.last_update) > KeepAliveHours
                THEN Updated(u)
                ELSE NotUpdated
      ]_vars

\* a placeholder feed was refreshed by the keep-alive rule
C3_Witness ==
    /\ ev.op = "process_account"
    /\ ev.reason = "keepalive"
    /\ ev.outcome = "True"
    /\ ev.tweets = <<>>
    /\ feeds[ev.username].lastBuildDate = now

(* C4: with 3 or more persisted failures process_account returns False       *)
(* without contacting a mirror, computing a fingerprint, writing the feed or *)
(* changing the persisted state.                                             *)
C4_SkipAfterThreeFailures ==
    [][ ProcessStep =>
          LET u == accounts[idx]
              st == load_state(u)
          IN  st.failures >= 3 =>
                /\ ev'.outcome = "False"
                /\ ev'.tried = <<>>
                /\ ev'.current_hash = None
                /\ ~ev'.wrote_feed /\ ~ev'.wrote_state
                /\ feeds' = feeds
                /\ state' = state
      ]_vars

C4_Witness ==
    /\ ev.op = "process_account"
    /\ ev.skipped
    /\ state[ev.username].failures >= 3

\* Two normal runs in succession, the second one completed
SecondRunDone == NormalDone /\ prev.valid /\ Len(log) = Len(prev.fetches)

\* Every account fetched in both runs returned the same snippets in both
SameSnippets ==
    \A k \in 1..Len(log) :
        (log[k].fetched /\ prev.fetches[k].fetched) => log[k].tweets = prev.fetches[k].tweets

(* C5 (as claimed): when a run follows another within less than the         *)
(* keep-alive interval and every account's fetch returns the same snippets   *)
(* in both, the second run writes no feed and no state for any account (that *)
(* is a handle) and reports 0 updated.                                       *)
C5_IdempotentWithinInterval ==
    (SecondRunDone /\ SameSnippets /\ ev.at - prev.end < KeepAliveHours) =>
        /\ \A k \in 1..Len(log) : Handle(log[k].username) => ~Wrote(log[k])
        /\ ev.result[1] = 0

(* C5 (amended): when a run follows another and every account's fetch        *)
(* returns the same snippets in both, the only writes of the second run for  *)
(* accounts that are handles are keep-alive refreshes of accounts whose      *)
(* fetch is empty, and the count it reports is the number of those.          *)
C5_IdempotentButKeepAlive ==
    (SecondRunDone /\ SameSnippets) =>
        /\ \A k \in 1..Len(log) :
              (Handle(log[k].username) /\ Wrote(log[k])) =>
                  /\ log[k].reason = "keepalive"
                  /\ log[k].tweets = <<>>
                  /\ log[k].wrote_feed /\ log[k].wrote_state
        /\ ev.result[1] = Cardinality({ k \in 1..Len(log) : log[k].reason = "keepalive" })

\* the second of two runs fetched what the first, which updated, had fetched
C5_Witness ==
    /\ SecondRunDone /\ SameSnippets
    /\ ev.at - prev.end < KeepAliveHours
    /\ \E k \in 1..Len(log) :
          /\ log[k].fetched /\ log[k].tweets # <<>> /\ ~Wrote(log[k])
          /\ feeds[log[k].username].lastBuildDate = prev.end
    /\ ev.result[1] = 0

(* C6 (as claimed): when every mirror was tried, in list order, without a    *)
(* snippet, fetch_tweets returns no snippets and a null mirror, and the      *)
(* mirror recorded in the persisted state is null.                           *)
C6_NullMirrorOnFailure ==
    (ev.op = "process_account" /\ ~ev.skipped /\ ev.tweets = <<>>) =>
        /\ ev.tried = instances
        /\ ev.instance_used = NoInstance
        /\ ev.wrote_state => state[ev.username].instance_used = NoInstance

(* C7 (as claimed): a normal invocation of main exits with status 1 exactly  *)
(* when run() reports 0 updated accounts, which is when no account was       *)
(* updated (no process_account call wrote feed and state and returned True), *)
(* and with status 0 otherwise; with an empty account list it exits with 1.  *)
C7_ExitStatus ==
    NormalDone =>
        /\ ev.exit_code \in {0, 1}
        /\ ev.exit_code = 1 <=> ev.result[1] = 0
        /\ ev.exit_code = 0 <=>
              (\E k \in 1..Len(log) :
                  log[k].outcome = "True" /\ log[k].wrote_feed /\ log[k].wrote_state)
        /\ accounts = <<>> => (ev.exit_code = 1 /\ log = <<>>)

(* C8: run() goes through the account list once, in order, one account at a  *)
(* time; it can always take its next step until it returns; an exception of  *)
(* one account does not keep the later ones from being processed; and it     *)
(* returns (number of accounts whose processing returned True, number of     *)
(* accounts).                                                                *)
C8_RunCompletes ==
    /\ pc = "run" =>
         /\ idx \in 1..(Len(accounts) + 1)
         /\ Usernames(log) = SubSeq(accounts, 1, idx - 1)
         /\ updated_count = Trues(log)
         /\ ENABLED (ProcessNext \/ RunFinish)
    /\ NormalDone =>
         /\ Usernames(log) = accounts
         /\ ev.result = <<Trues(log), Len(accounts)>>

\* the first account raised and the one after it was updated
C8_Witness ==
    /\ NormalDone
    /\ Len(log) = 2
    /\ log[1].outcome = "raise"
    /\ log[2].outcome = "True"
    /\ ev.result = <<1, 2>>

\* A step that is one invocation of main --force
ForceStep == pc = "idle" /\ pc' = "idle" /\ now' = now /\ ev'.op = "force"

(* C9 (as claimed): main --force sets the fingerprint of every listed        *)
(* account to null and changes nothing else, and the normal run that follows *)
(* rewrites the feed document of every listed account.                       *)
C9_ForceThenAllRewritten ==
    [][ (\A k \in 1..Len(accounts) : Handle(accounts[k])) =>
          /\ ForceStep =>
               /\ feeds' = feeds
               /\ DOMAIN state' = DOMAIN state \cup { accounts[k] : k \in 1..Len(accounts) }
               /\ \A u \in DOMAIN state' :
                     state'[u] = IF \E k \in 1..Len(accounts) : accounts[k] = u
                                 THEN [ load_state(u) EXCEPT !.last_hash = None ]
                                 ELSE state[u]
          /\ (NormalDone /\ after_force)' =>
               \A k \in 1..Len(accounts) : log'[k].wrote_feed
      ]_vars

(* C10: once an account has 3 or more persisted failures, no step of a run   *)
(* or of main --force lowers that count, rewrites its feed document or       *)
(* fetches for it.                                                           *)
C10_SkipIsAbsorbing ==
    [][ \A u \in DOMAIN state :
          state[u].failures >= MaxFailures =>
            /\ u \in DOMAIN state'
            /\ state'[u].failures >= state[u].failures
            /\ (u \in DOMAIN feeds') = (u \in DOMAIN feeds)
            /\ u \in DOMAIN feeds => feeds'[u] = feeds[u]
            /\ (ProcessStep /\ accounts[idx] = u) =>
                  (ev'.tried = <<>> /\ ~ev'.wrote_feed /\ ev'.outcome = "False")
      ]_vars

\* an account with 3 failures went through --force and was skipped by the
\* run after it
C10_Witness ==
    /\ ev.op = "process_account"
    /\ ev.skipped
    /\ after_force
    /\ state[ev.username].failures >= MaxFailures
    /\ state[ev.username].last_hash = None

====
